---- MODULE Spec2Model ----
(***************************************************************************)
(* A model of backend/pdf_qa_server.py: the module-level cache             *)
(* (_pdf_cache, _pdf_cache_loaded, _pdf_folder_path, _passage_embeddings,  *)
(* _passage_metadata, _sentence_model), the functions that rebuild and     *)
(* query it, and the Flask handlers, which the threaded development server *)
(* runs concurrently: one step of a request is one access to a module      *)
(* global or to the file system.                                           *)
(*                                                                         *)
(* Strings are sequences of one-character strings; a dict is the sequence  *)
(* of its (key, value) pairs in insertion order; None is the empty         *)
(* sequence where the code only tests it for truth (a folder path, the     *)
(* embeddings array, which is never empty when it is set).                 *)
(***************************************************************************)
EXTENDS Integers, Sequences, FiniteSets, TLC

\* ---------------------------------------------------------------- bounds
\* Worker threads of the server that handle requests at the same time.
NumThreads == 2
\* Requests (and direct calls) started over a run, one at a time.
MaxRequests == 3
\* Requests (and direct calls) started over a run of concurrent threads.
MaxConcurrentRequests == 2
\* Longest text handed to a stand-alone call of split_into_passages.
MaxTextLen == 5
\* Largest max_length handed to a stand-alone call of split_into_passages.
MaxSplitLength == 4
\* Most passages in the index of a stand-alone call of semantic_search.
MaxIndexLen == 3
\* Largest top_k handed to a stand-alone call of semantic_search.
MaxTopK == 3

\* ---------------------------------------------------------------- strings
\* None, for a value the code tests for truth or with "is None"
None == <<>>

Whitespace == {" ", "\n"}
SentenceEnd == {".", "!", "?"}

RECURSIVE LStrip(_)
LStrip(s) ==
    IF s # <<>> /\ Head(s) \in Whitespace THEN LStrip(Tail(s)) ELSE s

RECURSIVE RStrip(_)
RStrip(s) ==
    IF s # <<>> /\ s[Len(s)] \in Whitespace
    THEN RStrip(SubSeq(s, 1, Len(s) - 1))
    ELSE s

\* str.strip()
Strip(s) == LStrip(RStrip(s))

\* c repeated n times
RECURSIVE Rep(_, _)
Rep(c, n) == IF n <= 0 THEN <<>> ELSE <<c>> \o Rep(c, n - 1)

\* a sentence of n characters: n-1 letters c and a full stop
Sent(c, n) == Rep(c, n - 1) \o <<".">>

\* the first index >= i of s that holds no whitespace (Len(s)+1 if none)
RECURSIVE SkipSpace(_, _)
SkipSpace(s, i) ==
    IF i <= Len(s) /\ s[i] \in Whitespace THEN SkipSpace(s, i + 1) ELSE i

\* re.split(r'(?<=[.!?])\s+', text): cut at every run of whitespace that
\* directly follows a sentence end; the run itself is dropped.
RECURSIVE ReSplit(_, _, _)
ReSplit(text, i, cur) ==
    IF i > Len(text) THEN <<cur>>
    ELSE IF text[i] \in Whitespace /\ i > 1 /\ text[i - 1] \in SentenceEnd
         THEN <<cur>> \o ReSplit(text, SkipSpace(text, i), <<>>)
         ELSE ReSplit(text, i + 1, Append(cur, text[i]))

\* split_into_passages without lines 104-105: the last passage is forgotten
RECURSIVE Accumulate_M(_, _, _, _, _)
Accumulate_M(sentences, i, passages, current_passage, max_length) ==
    IF i > Len(sentences)
    THEN passages
    ELSE LET sentence == Strip(sentences[i]) IN
         IF sentence = <<>>
         THEN Accumulate_M(sentences, i + 1, passages, current_passage, max_length)
         ELSE IF Len(current_passage) + Len(sentence) > max_length
                 /\ current_passage # <<>>
              THEN Accumulate_M(sentences, i + 1,
                                Append(passages, Strip(current_passage)),
                                sentence, max_length)
              ELSE Accumulate_M(sentences, i + 1, passages,
                                IF current_passage # <<>>
                                THEN current_passage \o <<" ">> \o sentence
                                ELSE sentence,
                                max_length)

\* the loop of split_into_passages over the sentences from index i on:
\* passages so far and the current passage
RECURSIVE Accumulate(_, _, _, _, _)
Accumulate(sentences, i, passages, current_passage, max_length) ==
    IF i > Len(sentences)
    THEN IF Strip(current_passage) # <<>>
         THEN Append(passages, Strip(current_passage))
         ELSE passages
    ELSE LET sentence == Strip(sentences[i]) IN
         IF sentence = <<>>
         THEN Accumulate(sentences, i + 1, passages, current_passage, max_length)
         ELSE IF Len(current_passage) + Len(sentence) > max_length
                 /\ current_passage # <<>>
              THEN Accumulate(sentences, i + 1,
                              Append(passages, Strip(current_passage)),
                              sentence, max_length)
              ELSE Accumulate(sentences, i + 1, passages,
                              IF current_passage # <<>>
                              THEN current_passage \o <<" ">> \o sentence
                              ELSE sentence,
                              max_length)

split_into_passages(text, max_length) ==
    Accumulate(ReSplit(text, 1, <<>>), 1, <<>>, <<>>, max_length)

\* the default of split_into_passages' max_length
DefaultMaxLength == 500
\* build_passage_index keeps a passage when len(passage) > 20
MinPassageLength == 20
\* semantic_search's top_k as ask_question passes it
TopK == 3


\* ---------------------------------------------------------------- file system
\* PDF_DIRECTORY, and the other paths a request can name
PDF_DIRECTORY == <<"p", "d", "f", "s">>
FolderF == <<"F">>
FolderE == <<"E">>
PlainFile == <<"t", "x", "t">>
Missing == <<"n", "o">>
Paths == {PDF_DIRECTORY, FolderF, FolderE, PlainFile, Missing}

\* A directory entry: a file name (stem, extension) and, for a PDF, the text
\* of its pages. os.listdir gives the entries of a directory in this order.
DirEntries(path) ==
    IF path = PDF_DIRECTORY
    THEN << [name |-> <<"d", "pdf">>, pages |-> <<Sent("a", 24)>>],
            [name |-> <<"notes", "txt">>, pages |-> <<>>],
            [name |-> <<"s", "PDF">>, pages |-> <<Sent("c", 5)>>] >>
    ELSE IF path = FolderF
    THEN << [name |-> <<"f1", "pdf">>, pages |-> <<Sent("b", 22), Sent("a", 4)>>],
            [name |-> <<"f2", "pdf">>, pages |-> <<Sent("c", 21)>>] >>
    ELSE <<>>

\* filename.lower()
Lower(ext) == IF ext = "PDF" THEN "pdf" ELSE IF ext = "TXT" THEN "txt" ELSE ext

\* filename.lower().endswith('.pdf')
IsPdfName(name) == Lower(name[2]) = "pdf"

\* extract_text_from_pdf when reading stops after the first k pages (an
\* exception on page k+1 is caught; k = Len(pages) when none is raised):
\* every page read that has text adds its text and a newline.
RECURSIVE ExtractPages(_, _)
ExtractPages(pages, k) ==
    IF k = 0 THEN <<>>
    ELSE ExtractPages(pages, k - 1)
         \o (IF pages[k] # <<>> THEN pages[k] \o <<"\n">> ELSE <<>>)

\* extract_text_from_pdf on a file of which k pages can be read
extract_text_from_pdf(pages, k, pdf_support) ==
    IF ~pdf_support THEN <<>> ELSE ExtractPages(pages, k)

\* the PDF files of the file system, by name
PdfEntries ==
    {e \in UNION {{DirEntries(p)[i] : i \in 1..Len(DirEntries(p))} : p \in Paths} :
        IsPdfName(e.name)}
PdfNames == {e.name : e \in PdfEntries}
PagesOf(name) == (CHOOSE e \in PdfEntries : e.name = name).pages

\* ---------------------------------------------------------------- dicts
Keys(d) == [i \in 1..Len(d) |-> d[i][1]]
KeySet(d) == {d[i][1] : i \in 1..Len(d)}

\* ---------------------------------------------------------------- embeddings
Min(a, b) == IF a <= b THEN a ELSE b

RECURSIVE Count(_, _)
Count(s, c) ==
    IF s = <<>> THEN 0
    ELSE (IF Head(s) = c THEN 1 ELSE 0) + Count(Tail(s), c)

\* The embedding provider (model.encode) on one string: a deterministic,
\* non-zero vector of fixed length.
Embed(s) ==
    LET v == <<Min(Count(s, "a"), 2), Min(Count(s, "b"), 2), Min(Count(s, "c"), 2)>>
    IN IF v = <<0, 0, 0>> THEN <<0, 0, 0, 1>> ELSE Append(v, 0)

\* model.encode(list): one vector per string, in order
Encode(strings) == [i \in 1..Len(strings) |-> Embed(strings[i])]

\* the (filename, passage) entries build_passage_index collects from
\* pdf_texts from document i on, in document and passage order
RECURSIVE IndexEntries(_, _)
IndexEntries(pdf_texts, i) ==
    IF i > Len(pdf_texts) THEN <<>>
    ELSE LET filename == pdf_texts[i][1]
             text == pdf_texts[i][2]
             passages == IF text = <<>> THEN <<>>
                         ELSE split_into_passages(text, DefaultMaxLength)
             kept == SelectSeq(passages, LAMBDA p : Len(p) > MinPassageLength)
         IN [j \in 1..Len(kept) |-> <<filename, kept[j]>>]
            \o IndexEntries(pdf_texts, i + 1)


\* the dict load_all_pdfs builds from the directory entries from i on
\* (lines 176-179): one (filename, text) pair per PDF file, in listing order
RECURSIVE LoadTexts(_, _, _, _)
LoadTexts(entries, i, pdf_support, readable) ==
    IF i > Len(entries) THEN <<>>
    ELSE LET rest == LoadTexts(entries, i + 1, pdf_support, readable) IN
         IF IsPdfName(entries[i].name)
         THEN << <<entries[i].name,
                   extract_text_from_pdf(entries[i].pages,
                                         readable[entries[i].name],
                                         pdf_support)>> >> \o rest
         ELSE rest

\* ---------------------------------------------------------------- state
Threads == 1..NumThreads

VARIABLES
    PDF_SUPPORT,              \* PyPDF2 was imported
    SEMANTIC_SEARCH_SUPPORT,  \* sentence_transformers was imported
    readable_pages,           \* PDF file -> the pages PyPDF2 reads before it fails
    fs,                       \* path -> "dir" | "created" | "file" | "absent"
    sentence_model,           \* _sentence_model: "None" | "loaded"
    pdf_cache,                \* _pdf_cache
    pdf_cache_loaded,         \* _pdf_cache_loaded
    pdf_folder_path,          \* _pdf_folder_path
    passage_embeddings,       \* _passage_embeddings
    passage_metadata,         \* _passage_metadata
    th,                       \* per thread: the request it runs and its locals
    workers,                  \* threads of the server that take requests
    max_requests,             \* requests the run may start
    started                   \* requests started so far

cache == <<pdf_cache, pdf_cache_loaded, pdf_folder_path,
           passage_embeddings, passage_metadata>>
env == <<PDF_SUPPORT, SEMANTIC_SEARCH_SUPPORT, readable_pages, workers,
         max_requests>>
vars == <<PDF_SUPPORT, SEMANTIC_SEARCH_SUPPORT, readable_pages, fs,
          sentence_model, pdf_cache,
          pdf_cache_loaded, pdf_folder_path, passage_embeddings,
          passage_metadata, th, workers, max_requests, started>>

NoResponse == [status |-> 0, success |-> FALSE, msg |-> "none",
               sources |-> <<>>, pdfs |-> <<>>, top_confidence |-> 0]

Response(status, success, msg, sources, pdfs) ==
    [status |-> status, success |-> success, msg |-> msg,
     sources |-> sources, pdfs |-> pdfs, top_confidence |-> 0]

\* the cache as a request finds it
NoCache ==
    [pdf_cache |-> <<>>, pdf_cache_loaded |-> FALSE, pdf_folder_path |-> None,
     passage_embeddings |-> None, passage_metadata |-> <<>>]

CacheNow ==
    [pdf_cache |-> pdf_cache, pdf_cache_loaded |-> pdf_cache_loaded,
     pdf_folder_path |-> pdf_folder_path,
     passage_embeddings |-> passage_embeddings,
     passage_metadata |-> passage_metadata]

NoBody == [has |-> FALSE, value |-> <<>>]

\* A thread that handles no request. The fields up to response are the
\* locals of the functions; the others record the request for the
\* properties: its body, load_all_pdfs' arguments, the cache at its start,
\* whether line 158 found another folder, and the return load_all_pdfs took.
IdleThread ==
    [pc |-> "idle", kind |-> "none", question |-> <<>>,
     force_reload |-> FALSE, folder_path |-> None, target_directory |-> None,
     all_text |-> <<>>, todo |-> <<>>, all_passages |-> <<>>,
     pdf_texts |-> <<>>, top_k |-> TopK, top |-> <<>>, results |-> <<>>,
     text |-> <<>>, max_length |-> DefaultMaxLength, passages |-> <<>>,
     response |-> NoResponse,
     body |-> NoBody, force_arg |-> FALSE, entry |-> NoCache,
     folder_changed |-> FALSE, path |-> "none"]

\* the module's globals after import
Globals ==
    /\ fs \in {[p \in Paths |->
                  IF p = PDF_DIRECTORY THEN d
                  ELSE IF p \in {FolderF, FolderE} THEN "dir"
                  ELSE IF p = PlainFile THEN "file" ELSE "absent"] :
               d \in {"dir", "absent"}}
    /\ sentence_model = "None"
    /\ pdf_cache = <<>>
    /\ pdf_cache_loaded = FALSE
    /\ pdf_folder_path = None
    /\ passage_embeddings = None
    /\ passage_metadata = <<>>
    /\ th = [t \in Threads |-> IdleThread]
    /\ started = 0

\* every page of every file can be read
AllReadable == [n \in PdfNames |-> Len(PagesOf(n))]

\* a server that handles one request at a time, in any environment
SeqInit ==
    /\ PDF_SUPPORT \in BOOLEAN
    /\ SEMANTIC_SEARCH_SUPPORT \in BOOLEAN
    /\ readable_pages \in
         IF PDF_SUPPORT
         THEN {r \in [PdfNames -> 0..2] : \A n \in PdfNames : r[n] <= Len(PagesOf(n))}
         ELSE {AllReadable}
    /\ workers = 1
    /\ max_requests = MaxRequests
    /\ Globals

\* the threaded server with both libraries installed
Init ==
    /\ PDF_SUPPORT = TRUE
    /\ SEMANTIC_SEARCH_SUPPORT = TRUE
    /\ readable_pages = AllReadable
    /\ workers = NumThreads
    /\ max_requests = MaxConcurrentRequests
    /\ Globals

\* os.path.exists, os.path.isdir and os.listdir; a directory that
\* os.makedirs created holds no file
Exists(path) == fs[path] # "absent"
IsDir(path) == fs[path] \in {"dir", "created"}
ListDir(path) == IF fs[path] = "dir" THEN DirEntries(path) ELSE <<>>

\* ---------------------------------------------------------------- control
Update(t, rec) == th' = [th EXCEPT ![t] = rec]

\* the request of thread me ends with a response; the locals other than
\* the question and the document map are dropped
Done(me, resp) ==
    [me EXCEPT !.pc = "idle", !.response = resp, !.force_reload = FALSE,
               !.target_directory = None, !.all_text = <<>>, !.todo = <<>>,
               !.all_passages = <<>>, !.top = <<>>, !.results = <<>>]

Finish(t, resp) == Update(t, Done(th[t], resp))

\* an exception raised in thread t: /ask and /load_pdfs catch it at the
\* handler boundary, /reload and a direct call let it escape
Raise(t) ==
    IF th[t].kind = "ask"
    THEN Finish(t, Response(500, FALSE, "An error occurred", <<>>, <<>>))
    ELSE IF th[t].kind = "load_pdfs"
    THEN Finish(t, Response(500, FALSE, "An error occurred", <<>>, <<>>))
    ELSE Finish(t, Response(500, FALSE, "escaped", <<>>, <<>>))


\* ask_question without the test of line 282: an empty document map is
\* searched like any other
LoadReturn_M(t, pdf_texts) ==
    LET me == [th[t] EXCEPT !.pdf_texts = pdf_texts]
        done(resp) == Update(t, Done(me, resp))
    IN
    IF me.kind = "ask"
    THEN Update(t, [me EXCEPT !.pc = "search_model", !.top_k = TopK])
    ELSE IF me.kind = "reload"
    THEN done(Response(200, TRUE, "Reloaded", <<>>, Keys(pdf_texts)))
    ELSE IF me.kind = "load_pdfs"
    THEN IF pdf_texts = <<>>
         THEN done(Response(200, FALSE, "No PDF files found", <<>>, <<>>))
         ELSE done(Response(200, TRUE, "Loaded", <<>>, Keys(pdf_texts)))
    ELSE done(Response(200, TRUE, "returned", <<>>, Keys(pdf_texts)))

\* load_all_pdfs returns pdf_texts to the handler that called it
\* (ask_question lines 280-288, reload_pdfs 345-350, load_pdfs_from_folder
\* 403-416, or a direct caller such as the start-up code)
LoadReturn(t, pdf_texts) ==
    LET me == [th[t] EXCEPT !.pdf_texts = pdf_texts]
        done(resp) == Update(t, Done(me, resp))
    IN
    IF me.kind = "ask"
    THEN IF pdf_texts = <<>>
         THEN done(Response(200, FALSE, "No PDF files are currently loaded",
                            <<>>, <<>>))
         ELSE Update(t, [me EXCEPT !.pc = "search_model", !.top_k = TopK])
    ELSE IF me.kind = "reload"
    THEN done(Response(200, TRUE, "Reloaded", <<>>, Keys(pdf_texts)))
    ELSE IF me.kind = "load_pdfs"
    THEN IF pdf_texts = <<>>
         THEN done(Response(200, FALSE, "No PDF files found", <<>>, <<>>))
         ELSE done(Response(200, TRUE, "Loaded", <<>>, Keys(pdf_texts)))
    ELSE done(Response(200, TRUE, "returned", <<>>, Keys(pdf_texts)))

\* a handler that got body calls load_all_pdfs(force_reload, folder_path)
EnterLoad(t, kind, body, question, force_reload, folder_path) ==
    /\ Update(t, [IdleThread EXCEPT !.pc = "load_folder", !.kind = kind,
                                    !.question = question,
                                    !.force_reload = force_reload,
                                    !.folder_path = folder_path,
                                    !.body = body,
                                    !.force_arg = force_reload,
                                    !.entry = CacheNow])
    /\ started' = started + 1
    /\ UNCHANGED <<env, fs, sentence_model, cache>>

\* a handler that got body answers without calling anything
Reject(t, kind, body, resp) ==
    /\ Update(t, [IdleThread EXCEPT !.kind = kind, !.response = resp,
                                    !.body = body, !.entry = CacheNow])
    /\ started' = started + 1
    /\ UNCHANGED <<env, fs, sentence_model, cache>>

CanStart(t) == th[t].pc = "idle" /\ t <= workers /\ started < max_requests

\* ---------------------------------------------------------------- handlers
\* the JSON bodies of POST /ask: no "question" key, a blank question, and
\* two questions
AskBodies ==
    {[has |-> FALSE, value |-> <<>>],
     [has |-> TRUE, value |-> <<" ">>],
     [has |-> TRUE, value |-> <<" ", "a", "a", "a">>],
     [has |-> TRUE, value |-> <<"z", "z", "z", "\n">>]}

\* ask_question without the strip of line 269
ask_question_M(t) ==
    /\ CanStart(t)
    /\ \E data \in AskBodies :
         IF ~data.has
         THEN Reject(t, "ask", data,
                     Response(400, FALSE, "Please provide a question.",
                              <<>>, <<>>))
         ELSE IF data.value = <<>>
              THEN Reject(t, "ask", data,
                          Response(400, FALSE, "Question cannot be empty.",
                                   <<>>, <<>>))
              ELSE EnterLoad(t, "ask", data, data.value, FALSE, None)

\* POST /ask up to its call of load_all_pdfs
ask_question(t) ==
    /\ CanStart(t)
    /\ \E data \in AskBodies :
         IF ~data.has
         THEN Reject(t, "ask", data,
                     Response(400, FALSE, "Please provide a question.",
                              <<>>, <<>>))
         ELSE LET question == Strip(data.value) IN
              IF question = <<>>
              THEN Reject(t, "ask", data,
                          Response(400, FALSE, "Question cannot be empty.",
                                   <<>>, <<>>))
              ELSE EnterLoad(t, "ask", data, question, FALSE, None)

\* reload_pdfs reloading the folder that is cached
reload_pdfs_M(t) ==
    /\ CanStart(t)
    /\ EnterLoad(t, "reload", NoBody, <<>>, TRUE, pdf_folder_path)

\* POST /reload
reload_pdfs(t) ==
    /\ CanStart(t)
    /\ EnterLoad(t, "reload", NoBody, <<>>, TRUE, None)

\* the JSON bodies of POST /load_pdfs: no "folder_path" key, a blank path,
\* and paths that do not exist, are a file, or are a directory
LoadBodies ==
    {[has |-> FALSE, value |-> <<>>],
     [has |-> TRUE, value |-> <<" ", "\n">>],
     [has |-> TRUE, value |-> Missing],
     [has |-> TRUE, value |-> PlainFile],
     [has |-> TRUE, value |-> <<" ">> \o FolderF],
     [has |-> TRUE, value |-> FolderE \o <<" ">>]}

\* load_pdfs_from_folder without the isdir test of line 395
load_pdfs_from_folder_M(t) ==
    /\ CanStart(t)
    /\ \E data \in LoadBodies :
         IF ~data.has
         THEN Reject(t, "load_pdfs", data,
                     Response(400, FALSE, "Please provide a folder_path.",
                              <<>>, <<>>))
         ELSE LET folder_path == Strip(data.value) IN
              IF folder_path = <<>>
              THEN Reject(t, "load_pdfs", data,
                          Response(400, FALSE, "Folder path cannot be empty.",
                                   <<>>, <<>>))
              ELSE IF folder_path \notin Paths \/ ~Exists(folder_path)
              THEN Reject(t, "load_pdfs", data,
                          Response(400, FALSE, "Folder does not exist",
                                   <<>>, <<>>))
              ELSE EnterLoad(t, "load_pdfs", data, <<>>, TRUE, folder_path)

\* POST /load_pdfs up to its call of load_all_pdfs
load_pdfs_from_folder(t) ==
    /\ CanStart(t)
    /\ \E data \in LoadBodies :
         IF ~data.has
         THEN Reject(t, "load_pdfs", data,
                     Response(400, FALSE, "Please provide a folder_path.",
                              <<>>, <<>>))
         ELSE LET folder_path == Strip(data.value) IN
              IF folder_path = <<>>
              THEN Reject(t, "load_pdfs", data,
                          Response(400, FALSE, "Folder path cannot be empty.",
                                   <<>>, <<>>))
              ELSE IF folder_path \notin Paths \/ ~Exists(folder_path)
              THEN Reject(t, "load_pdfs", data,
                          Response(400, FALSE, "Folder does not exist",
                                   <<>>, <<>>))
              ELSE IF ~IsDir(folder_path)
              THEN Reject(t, "load_pdfs", data,
                          Response(400, FALSE, "Path is not a directory",
                                   <<>>, <<>>))
              ELSE EnterLoad(t, "load_pdfs", data, <<>>, TRUE, folder_path)

\* the arguments (force_reload, folder_path) of a direct call of
\* load_all_pdfs: none, as in the start-up code; a folder without
\* force_reload; a folder that does not exist
CallArguments == {<<FALSE, None>>, <<FALSE, FolderF>>, <<TRUE, Missing>>}

call_load_all_pdfs(t) ==
    /\ CanStart(t)
    /\ \E args \in CallArguments :
         EnterLoad(t, "call", NoBody, <<>>, args[1], args[2])

\* ---------------------------------------------------------------- load_all_pdfs
At(t, pc) == th[t].pc = pc
Goto(t, pc) == Update(t, [th[t] EXCEPT !.pc = pc])

\* load_all_pdfs without lines 158-159: another folder forces nothing
load_folder_M(t) ==
    /\ At(t, "load_folder")
    /\ LET me == th[t] IN
       Update(t, [me EXCEPT
           !.pc = "load_loaded",
           !.target_directory =
               IF me.folder_path # None THEN me.folder_path ELSE PDF_DIRECTORY,
           !.folder_changed =
               me.folder_path # None /\ me.folder_path # pdf_folder_path])
    /\ UNCHANGED <<env, fs, sentence_model, cache, started>>

\* lines 155-159: the target directory; a folder_path other than the cached
\* one forces the reload
load_folder(t) ==
    /\ At(t, "load_folder")
    /\ LET me == th[t] IN
       Update(t, [me EXCEPT
           !.pc = "load_loaded",
           !.target_directory =
               IF me.folder_path # None THEN me.folder_path ELSE PDF_DIRECTORY,
           !.force_reload =
               IF me.folder_path # None /\ me.folder_path # pdf_folder_path
               THEN TRUE ELSE me.force_reload,
           !.folder_changed =
               me.folder_path # None /\ me.folder_path # pdf_folder_path])
    /\ UNCHANGED <<env, fs, sentence_model, cache, started>>

\* load_all_pdfs without the cache test of lines 161-162
load_loaded_M(t) ==
    /\ At(t, "load_loaded")
    /\ Goto(t, "load_exists")
    /\ UNCHANGED <<env, fs, sentence_model, cache, started>>

\* line 161: a loaded cache is reused unless the reload is forced
load_loaded(t) ==
    /\ At(t, "load_loaded")
    /\ IF pdf_cache_loaded /\ ~th[t].force_reload
       THEN Update(t, [th[t] EXCEPT !.pc = "load_hit", !.path = "hit"])
       ELSE Goto(t, "load_exists")
    /\ UNCHANGED <<env, fs, sentence_model, cache, started>>

\* line 162: return _pdf_cache
load_hit(t) ==
    /\ At(t, "load_hit")
    /\ LoadReturn(t, pdf_cache)
    /\ UNCHANGED <<env, fs, sentence_model, cache, started>>

\* lines 164-167: all_text = {}; does the target directory exist?
load_exists(t) ==
    /\ At(t, "load_exists")
    /\ LET me == th[t] IN
       Update(t, [me EXCEPT
           !.all_text = <<>>,
           !.path = "rebuild",
           !.pc = IF Exists(me.target_directory) THEN "load_listdir"
                  ELSE IF me.folder_path = None THEN "load_makedirs"
                  ELSE "load_store_cache"])
    /\ UNCHANGED <<env, fs, sentence_model, cache, started>>

\* line 168: os.makedirs(target_directory), which raises when the directory
\* has appeared since line 166
load_makedirs(t) ==
    /\ At(t, "load_makedirs")
    /\ IF ~Exists(th[t].target_directory)
       THEN /\ fs' = [fs EXCEPT ![th[t].target_directory] = "created"]
            /\ Goto(t, "load_store_cache")
       ELSE /\ Raise(t)
            /\ UNCHANGED fs
    /\ UNCHANGED <<env, sentence_model, cache, started>>

\* lines 176-179: os.listdir, which may raise, and the extraction of every
\* PDF file of the listing
load_listdir(t) ==
    /\ At(t, "load_listdir")
    /\ \E raises \in BOOLEAN :
         IF raises \/ ~IsDir(th[t].target_directory)
         THEN Raise(t)
         ELSE Update(t, [th[t] EXCEPT
                  !.pc = "load_store_cache",
                  !.all_text = LoadTexts(ListDir(th[t].target_directory), 1,
                                         PDF_SUPPORT, readable_pages)])
    /\ UNCHANGED <<env, fs, sentence_model, cache, started>>

\* load_all_pdfs keeping the cached documents when the folder gave none
load_store_cache_M(t) ==
    /\ At(t, "load_store_cache")
    /\ pdf_cache' = IF th[t].all_text = <<>> THEN pdf_cache ELSE th[t].all_text
    /\ Goto(t, "load_store_loaded")
    /\ UNCHANGED <<env, fs, sentence_model, pdf_cache_loaded, pdf_folder_path,
                   passage_embeddings, passage_metadata, started>>

\* lines 169, 181: _pdf_cache = all_text
load_store_cache(t) ==
    /\ At(t, "load_store_cache")
    /\ pdf_cache' = th[t].all_text
    /\ Goto(t, "load_store_loaded")
    /\ UNCHANGED <<env, fs, sentence_model, pdf_cache_loaded, pdf_folder_path,
                   passage_embeddings, passage_metadata, started>>

\* lines 170, 182: _pdf_cache_loaded = True
load_store_loaded(t) ==
    /\ At(t, "load_store_loaded")
    /\ pdf_cache_loaded' = TRUE
    /\ Goto(t, "load_store_folder")
    /\ UNCHANGED <<env, fs, sentence_model, pdf_cache, pdf_folder_path,
                   passage_embeddings, passage_metadata, started>>

\* lines 171, 183: _pdf_folder_path = target_directory
load_store_folder(t) ==
    /\ At(t, "load_store_folder")
    /\ pdf_folder_path' = th[t].target_directory
    /\ Goto(t, "build_model")
    /\ UNCHANGED <<env, fs, sentence_model, pdf_cache, pdf_cache_loaded,
                   passage_embeddings, passage_metadata, started>>

\* ---------------------------------------------------------------- build_passage_index
\* get_sentence_model(): the values _sentence_model can have after the call
\* (loading is tried when it is None and the import succeeded, and may fail)
get_sentence_model(model, support) ==
    IF model = "None" /\ support THEN {"loaded", "None"} ELSE {model}

\* build_passage_index without the test of line 118: the passages are
\* indexed whether or not there is a model
build_model_M(t) ==
    /\ At(t, "build_model")
    /\ \E model \in get_sentence_model(sentence_model, SEMANTIC_SEARCH_SUPPORT) :
         /\ sentence_model' = model
         /\ Goto(t, "build_reset_metadata")
    /\ UNCHANGED <<env, fs, cache, started>>

\* lines 117-124: without a model the index is cleared; with one,
\* _passage_metadata is reset and the passages to index are collected
build_model(t) ==
    /\ At(t, "build_model")
    /\ \E model \in get_sentence_model(sentence_model, SEMANTIC_SEARCH_SUPPORT) :
         /\ sentence_model' = model
         /\ IF model = "None"
            THEN Goto(t, "build_clear_embeddings")
            ELSE Goto(t, "build_reset_metadata")
    /\ UNCHANGED <<env, fs, cache, started>>

\* build_passage_index without the reset of line 124
build_reset_metadata_M(t) ==
    /\ At(t, "build_reset_metadata")
    /\ passage_metadata' = passage_metadata
    /\ LET todo == IndexEntries(th[t].all_text, 1) IN
       Update(t, [th[t] EXCEPT
           !.todo = todo, !.all_passages = <<>>,
           !.pc = IF todo = <<>> THEN "build_clear_embeddings"
                  ELSE "build_append"])
    /\ UNCHANGED <<env, fs, sentence_model, pdf_cache, pdf_cache_loaded,
                   pdf_folder_path, passage_embeddings, started>>

\* line 124: _passage_metadata = [], then the passages of lines 126-131
build_reset_metadata(t) ==
    /\ At(t, "build_reset_metadata")
    /\ passage_metadata' = <<>>
    /\ LET todo == IndexEntries(th[t].all_text, 1) IN
       Update(t, [th[t] EXCEPT
           !.todo = todo, !.all_passages = <<>>,
           !.pc = IF todo = <<>> THEN "build_clear_embeddings"
                  ELSE "build_append"])
    /\ UNCHANGED <<env, fs, sentence_model, pdf_cache, pdf_cache_loaded,
                   pdf_folder_path, passage_embeddings, started>>

\* lines 132-133: one passage joins all_passages and the list that
\* _passage_metadata names now
build_append(t) ==
    /\ At(t, "build_append")
    /\ LET me == th[t]
           entry == Head(me.todo) IN
       /\ passage_metadata' = Append(passage_metadata, entry)
       /\ Update(t, [me EXCEPT
              !.todo = Tail(me.todo),
              !.all_passages = Append(me.all_passages, entry[2]),
              !.pc = IF Tail(me.todo) = <<>> THEN "build_encode"
                     ELSE "build_append"])
    /\ UNCHANGED <<env, fs, sentence_model, pdf_cache, pdf_cache_loaded,
                   pdf_folder_path, passage_embeddings, started>>

\* line 137: _passage_embeddings = model.encode(all_passages), which may
\* raise; load_all_pdfs then returns all_text
build_encode(t) ==
    /\ At(t, "build_encode")
    /\ \E raises \in BOOLEAN :
         IF raises
         THEN Raise(t) /\ UNCHANGED passage_embeddings
         ELSE /\ passage_embeddings' = Encode(th[t].all_passages)
              /\ LoadReturn(t, th[t].all_text)
    /\ UNCHANGED <<env, fs, sentence_model, pdf_cache, pdf_cache_loaded,
                   pdf_folder_path, passage_metadata, started>>

\* lines 119, 140: _passage_embeddings = None
build_clear_embeddings(t) ==
    /\ At(t, "build_clear_embeddings")
    /\ passage_embeddings' = None
    /\ Goto(t, "build_clear_metadata")
    /\ UNCHANGED <<env, fs, sentence_model, pdf_cache, pdf_cache_loaded,
                   pdf_folder_path, passage_metadata, started>>

\* lines 120, 141: _passage_metadata = []; load_all_pdfs then returns all_text
build_clear_metadata(t) ==
    /\ At(t, "build_clear_metadata")
    /\ passage_metadata' = <<>>
    /\ LoadReturn(t, th[t].all_text)
    /\ UNCHANGED <<env, fs, sentence_model, pdf_cache, pdf_cache_loaded,
                   pdf_folder_path, passage_embeddings, started>>

\* ---------------------------------------------------------------- semantic_search
Dot(u, v) == u[1] * v[1] + u[2] * v[2] + u[3] * v[3] + u[4] * v[4]

\* The cosine similarity of u and v is Dot(u, v) / sqrt(Dot(u, u) * Dot(v, v));
\* no component is negative, so comparisons are made on the squares.
\* similarity(q, u) < similarity(q, v)
SimLess(q, u, v) ==
    Dot(q, u) * Dot(q, u) * Dot(v, v) < Dot(q, v) * Dot(q, v) * Dot(u, u)

\* similarity(q, v) > 0.2
AboveThreshold(q, v) ==
    25 * Dot(q, v) * Dot(q, v) > Dot(q, q) * Dot(v, v)

\* round(similarity * 100, 1), in tenths of a percent
Confidence(q, v) ==
    LET d2 == 4000000 * Dot(q, v) * Dot(q, v)
        n == Dot(q, q) * Dot(v, v)
    IN CHOOSE c \in 0..1000 :
           /\ (c = 0 \/ (2 * c - 1) * (2 * c - 1) * n <= d2)
           /\ d2 < (2 * c + 1) * (2 * c + 1) * n

\* np.argsort(similarities): the indices in ascending order of similarity,
\* equal similarities in index order
ArgSort(q, embeddings) ==
    LET n == Len(embeddings)
        before(i, j) == \/ SimLess(q, embeddings[i], embeddings[j])
                        \/ /\ ~SimLess(q, embeddings[j], embeddings[i])
                           /\ i < j
        rank(i) == 1 + Cardinality({j \in 1..n : before(j, i)})
    IN [k \in 1..n |-> CHOOSE i \in 1..n : rank(i) = k]

\* np.argsort(similarities)[-top_k:][::-1]; the slice [-0:] is the whole
\* array
TopIndices(q, embeddings, top_k) ==
    LET order == ArgSort(q, embeddings)
        n == Len(order)
        taken == IF top_k = 0 THEN n ELSE Min(top_k, n)
    IN [k \in 1..taken |-> order[n + 1 - k]]

\* semantic_search returns results to ask_question (lines 293-321)
SearchReturn(t, results) ==
    LET resp == IF results = <<>>
                THEN Response(200, TRUE, "No matching content found", <<>>, <<>>)
                ELSE [Response(200, TRUE, "answer", results, <<>>)
                        EXCEPT !.top_confidence = results[1].confidence]
    IN Finish(t, resp)

\* lines 198-199: model = get_sentence_model(); model is None
search_model(t) ==
    /\ At(t, "search_model")
    /\ \E model \in get_sentence_model(sentence_model, SEMANTIC_SEARCH_SUPPORT) :
         /\ sentence_model' = model
         /\ IF model = "None"
            THEN SearchReturn(t, <<>>)
            ELSE Goto(t, "search_check_embeddings")
    /\ UNCHANGED <<env, fs, cache, started>>

\* line 199: _passage_embeddings is None
search_check_embeddings(t) ==
    /\ At(t, "search_check_embeddings")
    /\ IF passage_embeddings = None
       THEN SearchReturn(t, <<>>)
       ELSE Goto(t, "search_check_metadata")
    /\ UNCHANGED <<env, fs, sentence_model, cache, started>>

\* line 199: len(_passage_metadata) == 0
search_check_metadata(t) ==
    /\ At(t, "search_check_metadata")
    /\ IF Len(passage_metadata) = 0
       THEN SearchReturn(t, <<>>)
       ELSE Goto(t, "search_similarities")
    /\ UNCHANGED <<env, fs, sentence_model, cache, started>>

\* lines 203-213: the question is encoded (which may raise), the
\* similarities to the rows of _passage_embeddings (None raises) are computed
\* and the top indices selected, each with its similarity
search_similarities(t) ==
    /\ At(t, "search_similarities")
    /\ \E raises \in BOOLEAN :
         IF raises \/ passage_embeddings = None
         THEN Raise(t)
         ELSE LET q == Embed(th[t].question)
                  idx == TopIndices(q, passage_embeddings, th[t].top_k)
              IN Update(t, [th[t] EXCEPT
                     !.pc = "search_results",
                     !.results = <<>>,
                     !.top = [k \in 1..Len(idx) |->
                                [idx |-> idx[k],
                                 vector |-> passage_embeddings[idx[k]]]]])
    /\ UNCHANGED <<env, fs, sentence_model, cache, started>>

\* lines 216-225, one iteration: a similarity above the threshold reads
\* _passage_metadata[idx], which raises when the list is shorter; after the
\* last iteration the results are returned
search_results(t) ==
    /\ At(t, "search_results")
    /\ LET me == th[t]
           q == Embed(me.question)
           cand == Head(me.top)
           keep == AboveThreshold(q, cand.vector)
           results ==
               IF keep
               THEN Append(me.results,
                           [filename |-> passage_metadata[cand.idx][1],
                            content |-> passage_metadata[cand.idx][2],
                            confidence |-> Confidence(q, cand.vector)])
               ELSE me.results
       IN IF keep /\ cand.idx > Len(passage_metadata)
          THEN Raise(t)
          ELSE IF Tail(me.top) = <<>>
          THEN SearchReturn(t, results)
          ELSE Update(t, [me EXCEPT !.top = Tail(me.top), !.results = results])
    /\ UNCHANGED <<env, fs, sentence_model, cache, started>>

\* ---------------------------------------------------------------- split_into_passages, called alone
\* the characters of the texts: a letter, a sentence end, a blank, a newline
TextChars == {"a", ".", " ", "\n"}
Texts == UNION {[1..n -> TextChars] : n \in 0..MaxTextLen}

\* both libraries installed, the directories in place, no request served
Installed ==
    /\ PDF_SUPPORT = TRUE
    /\ SEMANTIC_SEARCH_SUPPORT = TRUE
    /\ readable_pages = AllReadable
    /\ workers = 0
    /\ max_requests = 0
    /\ fs = [p \in Paths |->
               IF p \in {PDF_DIRECTORY, FolderF, FolderE} THEN "dir"
               ELSE IF p = PlainFile THEN "file" ELSE "absent"]
    /\ started = 0

\* the module's globals after import, no request running
Imported ==
    /\ Installed
    /\ sentence_model = "None"
    /\ pdf_cache = <<>>
    /\ pdf_cache_loaded = FALSE
    /\ pdf_folder_path = None
    /\ passage_embeddings = None
    /\ passage_metadata = <<>>

\* thread 1 is about to run split_into_passages(text, max_length)
SplitInit ==
    /\ Imported
    /\ \E text \in Texts, max_length \in 0..MaxSplitLength :
         th = [t \in Threads |->
                 IF t = 1
                 THEN [IdleThread EXCEPT !.pc = "split_into_passages",
                                         !.kind = "split",
                                         !.text = text,
                                         !.max_length = max_length]
                 ELSE IdleThread]

\* lines 86-107: the call returns the passages
call_split_into_passages(t) ==
    /\ At(t, "split_into_passages")
    /\ Update(t, [th[t] EXCEPT
           !.pc = "idle",
           !.passages = split_into_passages(th[t].text, th[t].max_length)])
    /\ UNCHANGED <<env, fs, sentence_model, cache, started>>

SplitNext == \E t \in Threads : call_split_into_passages(t)

\* split_into_passages on every text and max_length within the bounds
SplitSpec == SplitInit /\ [][SplitNext]_vars

\* ---------------------------------------------------------------- semantic_search, called alone
\* passages a folder's files can hold: each one sentence of more than 20
\* characters; the first two differ and have the same embedding
IndexPassages ==
    {Sent("a", 22), Sent("a", 23), <<"a">> \o Sent("b", 22), Sent("b", 22),
     Sent("c", 22)}

\* the names of the files of such a folder, in listing order
DocNames == << <<"f1", "pdf">>, <<"f2", "pdf">>, <<"f3", "pdf">>, <<"f4", "pdf">> >>

\* the questions asked, and the values of top_k
Questions == {<<"a", "a", "a">>, <<"a", "b">>, <<"z", "z", "z">>}
TopKs == 0..MaxTopK

\* The cache after load_all_pdfs loaded a folder of up to MaxIndexLen files
\* with one passage each (none: the index is empty), and thread 1 about to
\* run semantic_search(question, top_k)
SearchInit ==
    /\ Installed
    /\ sentence_model = "loaded"
    /\ pdf_cache_loaded = TRUE
    /\ pdf_folder_path = FolderF
    /\ \E n \in 0..MaxIndexLen :
         \E indexed \in [1..n -> IndexPassages] :
            /\ pdf_cache = [i \in 1..n |-> <<DocNames[i], indexed[i] \o <<"\n">> >>]
            /\ passage_metadata = [i \in 1..n |-> <<DocNames[i], indexed[i]>>]
            /\ passage_embeddings = IF n = 0 THEN None ELSE Encode(indexed)
    /\ \E question \in Questions, top_k \in TopKs :
         th = [t \in Threads |->
                 IF t = 1
                 THEN [IdleThread EXCEPT !.pc = "search_model",
                                         !.kind = "search",
                                         !.question = question,
                                         !.top_k = top_k]
                 ELSE IdleThread]

SearchNext ==
    \E t \in Threads :
        \/ search_model(t)
        \/ search_check_embeddings(t)
        \/ search_check_metadata(t)
        \/ search_similarities(t)
        \/ search_results(t)

\* semantic_search on every index, question and top_k within the bounds
SearchSpec == SearchInit /\ [][SearchNext]_vars

\* ---------------------------------------------------------------- specification
Step(t) ==
    \/ ask_question(t)
    \/ reload_pdfs(t)
    \/ load_pdfs_from_folder(t)
    \/ call_load_all_pdfs(t)
    \/ load_folder(t)
    \/ load_loaded(t)
    \/ load_hit(t)
    \/ load_exists(t)
    \/ load_makedirs(t)
    \/ load_listdir(t)
    \/ load_store_cache(t)
    \/ load_store_loaded(t)
    \/ load_store_folder(t)
    \/ build_model(t)
    \/ build_reset_metadata(t)
    \/ build_append(t)
    \/ build_encode(t)
    \/ build_clear_embeddings(t)
    \/ build_clear_metadata(t)
    \/ search_model(t)
    \/ search_check_embeddings(t)
    \/ search_check_metadata(t)
    \/ search_similarities(t)
    \/ search_results(t)

\* requests handled by concurrent threads
Next == \E t \in Threads : Step(t)

Spec == Init /\ [][Next]_vars

\* requests handled one at a time
SeqSpec == SeqInit /\ [][Next]_vars

\* either server
AllSpec == (Init \/ SeqInit) /\ [][Next]_vars

\* ---------------------------------------------------------------- properties
Idle(t) == th[t].pc = "idle"

\* thread t has answered a request
Answered(t) == Idle(t) /\ th[t].response.status # 0

\* the directory a call of load_all_pdfs with this folder_path loads
TargetOf(folder_path) ==
    IF folder_path # None THEN folder_path ELSE PDF_DIRECTORY

\* the steps of a rebuild: from line 164 of load_all_pdfs to the end of
\* build_passage_index
RebuildPcs ==
    {"load_exists", "load_makedirs", "load_listdir", "load_store_cache",
     "load_store_loaded", "load_store_folder", "build_model",
     "build_reset_metadata", "build_append", "build_encode",
     "build_clear_embeddings", "build_clear_metadata"}

InRebuild(t) == th[t].pc \in RebuildPcs

\* the index build_passage_index leaves for pdf_texts when nothing
\* interferes: the entries and their embeddings, or nothing when there is no
\* model or no passage
FullIndex(pdf_texts) ==
    LET entries == IndexEntries(pdf_texts, 1) IN
    [passage_metadata |-> entries,
     passage_embeddings |->
         IF entries = <<>> THEN None
         ELSE Encode([i \in 1..Len(entries) |-> entries[i][2]])]

EmptyIndex == [passage_metadata |-> <<>>, passage_embeddings |-> None]

IndexNow == [passage_metadata |-> passage_metadata,
             passage_embeddings |-> passage_embeddings]

\* C1: in every reachable state, also inside a rebuild and after a rebuild
\* that failed, there are as many passage vectors as metadata entries and
\* vector i is the embedding of the passage of metadata entry i.
C1_IndexParity ==
    /\ Len(passage_embeddings) = Len(passage_metadata)
    /\ \A i \in 1..Len(passage_metadata) :
         passage_embeddings[i] = Embed(passage_metadata[i][2])

\* C2: whatever rebuild runs beside it, a query reads the document map, the
\* metadata and the vectors of one snapshot: it does not fail on an index
\* out of range or a missing array, every source it answers with is an index
\* entry of the document map it read, and the confidence is that of the
\* entry's own vector.
C2_QueryReadsOneSnapshot ==
    \A t \in Threads :
        (Answered(t) /\ th[t].kind = "ask" /\ th[t].response.msg = "answer")
        => \A k \in 1..Len(th[t].response.sources) :
             LET source == th[t].response.sources[k]
                 entries == IndexEntries(th[t].pdf_texts, 1)
             IN /\ \E i \in 1..Len(entries) :
                      entries[i] = <<source.filename, source.content>>
                /\ source.confidence =
                      Confidence(Embed(th[t].question), Embed(source.content))

\* the cache a rebuild that thread t completed leaves when it runs alone
AloneResult(t) ==
    {[pdf_cache |-> th[t].pdf_texts, pdf_cache_loaded |-> TRUE,
      pdf_folder_path |-> TargetOf(th[t].folder_path),
      passage_embeddings |-> index.passage_embeddings,
      passage_metadata |-> index.passage_metadata] :
        index \in {FullIndex(th[t].pdf_texts), EmptyIndex}}

\* C3: rebuilds are serialized: at most one thread is inside a rebuild, and
\* when all requests have ended and every rebuild returned, the cache is
\* what one of the rebuilds leaves when it runs alone.
C3_RebuildsSerialized ==
    /\ Cardinality({t \in Threads : InRebuild(t)}) <= 1
    /\ ( /\ \A t \in Threads : Idle(t)
         /\ \E t \in Threads : th[t].path = "rebuild"
         /\ \A t \in Threads :
              th[t].path = "rebuild" => th[t].response.status = 200 )
       => \E t \in Threads :
            th[t].path = "rebuild" /\ CacheNow \in AloneResult(t)

\* the second half of C3 alone: the cache after concurrent rebuilds
C3_FinalCacheOfOneRebuild ==
    ( /\ \A t \in Threads : Idle(t)
      /\ \E t \in Threads : th[t].path = "rebuild"
      /\ \A t \in Threads :
           th[t].path = "rebuild" => th[t].response.status = 200 )
    => \E t \in Threads :
         th[t].path = "rebuild" /\ CacheNow \in AloneResult(t)

\* C4: a rebuild that fails (the listing or the embedding call raises) while
\* a snapshot is loaded leaves the documents, the folder path, the metadata
\* and the vectors as they were when it started.
C4_FailedRebuildKeepsSnapshot ==
    \A t \in Threads :
        ( /\ Answered(t)
          /\ th[t].path = "rebuild"
          /\ th[t].entry.pdf_cache_loaded
          /\ th[t].response.status = 500 )
        => CacheNow = th[t].entry

\* ---- the keyword matcher of the specification (there is none in the code)
\* text.lower() over the letters in use
ToLower(s) ==
    [i \in 1..Len(s) |-> IF s[i] = "A" THEN "a" ELSE IF s[i] = "Z" THEN "z" ELSE s[i]]

Letters == {"a", "b", "c", "z"}

\* the runs of letters of s from index i on, cur being the run in progress
RECURSIVE AlphaRuns(_, _, _)
AlphaRuns(s, i, cur) ==
    IF i > Len(s) THEN (IF cur = <<>> THEN {} ELSE {cur})
    ELSE IF s[i] \in Letters THEN AlphaRuns(s, i + 1, Append(cur, s[i]))
    ELSE (IF cur = <<>> THEN {} ELSE {cur}) \cup AlphaRuns(s, i + 1, <<>>)

StopWords == {<<"t", "h", "e">>, <<"w", "h", "a", "t">>, <<"a", "n", "d">>}

\* the keywords of a question: runs of letters of the lowercased question
\* that are longer than 2 and no stop words
Keywords(question) ==
    {w \in AlphaRuns(ToLower(question), 1, <<>>) : Len(w) > 2 /\ w \notin StopWords}

\* w occurs in text
Contains(text, w) ==
    \E i \in 1..(Len(text) - Len(w) + 1) : SubSeq(text, i, i + Len(w) - 1) = w

\* the documents of pdf_texts whose text holds a keyword of the question
KeywordMatches(question, pdf_texts) ==
    {pdf_texts[i][1] : i \in
        {j \in 1..Len(pdf_texts) :
            \E w \in Keywords(question) : Contains(ToLower(pdf_texts[j][2]), w)}}

\* C5: with an empty vector index, /ask with a question over a non-empty
\* document set answers from the documents that hold a keyword of the
\* question: success, and one to three sources drawn from those documents.
C5_KeywordFallback ==
    \A t \in Threads :
        ( /\ Answered(t)
          /\ th[t].kind = "ask"
          /\ th[t].response.status = 200
          /\ th[t].pdf_texts # <<>>
          /\ IndexNow = EmptyIndex
          /\ KeywordMatches(th[t].question, th[t].pdf_texts) # {} )
        => /\ th[t].response.success
           /\ Len(th[t].response.sources) \in 1..3
           /\ \A k \in 1..Len(th[t].response.sources) :
                th[t].response.sources[k].filename
                    \in KeywordMatches(th[t].question, th[t].pdf_texts)

\* thread t called load_all_pdfs without force_reload, for no folder (as
\* /ask does) or for the folder that was cached, and found the cache loaded
UnforcedCall(t) ==
    /\ Answered(t)
    /\ \/ th[t].kind = "call"
       \/ th[t].kind = "ask" /\ th[t].response.status # 400
    /\ ~th[t].force_arg
    /\ th[t].entry.pdf_cache_loaded
    /\ th[t].folder_path \in {None, th[t].entry.pdf_folder_path}

\* C6: a call of load_all_pdfs without force_reload that finds the cache
\* loaded for its folder returns the cached document map and rebuilds
\* nothing: documents, folder path, metadata and vectors are after the
\* request what they were before it.
C6_CacheHitUnchanged ==
    \A t \in Threads :
        UnforcedCall(t)
        => /\ th[t].path = "hit"
           /\ th[t].pdf_texts = th[t].entry.pdf_cache
           /\ CacheNow = th[t].entry

C6_Witness ==
    \E t \in Threads :
        /\ UnforcedCall(t)
        /\ th[t].kind = "ask"
        /\ th[t].response.msg = "answer"
        /\ th[t].entry.pdf_folder_path = FolderF

\* the files of a directory and the documents load_all_pdfs extracts from it
NamesIn(path) == {ListDir(path)[i].name : i \in 1..Len(ListDir(path))}

ExpectedTexts(path) ==
    LoadTexts(ListDir(path), 1, PDF_SUPPORT, readable_pages)

\* thread t ran a rebuild and load_all_pdfs returned
CompletedLoad(t) ==
    Answered(t) /\ th[t].path = "rebuild" /\ th[t].response.status = 200

\* C7: after a completed load of a folder, with requests handled one after
\* the other, the cache holds that folder's documents, the index is built
\* from these documents alone (or is empty), every metadata entry names a
\* file of the folder that is a key of the document map, and every source
\* of a later /ask does too.
C7_NoResidue ==
    \A t \in Threads :
        /\ CompletedLoad(t)
           => /\ pdf_folder_path = TargetOf(th[t].folder_path)
              /\ pdf_cache = ExpectedTexts(pdf_folder_path)
              /\ IndexNow \in {FullIndex(pdf_cache), EmptyIndex}
              /\ \A i \in 1..Len(passage_metadata) :
                   passage_metadata[i][1]
                       \in KeySet(pdf_cache) \cap NamesIn(pdf_folder_path)
        /\ ( /\ Answered(t)
             /\ th[t].kind = "ask"
             /\ IndexNow \in {FullIndex(pdf_cache), EmptyIndex} )
           => \A k \in 1..Len(th[t].response.sources) :
                th[t].response.sources[k].filename
                    \in KeySet(pdf_cache) \cap NamesIn(pdf_folder_path)

\* a load of another folder completed over a non-empty index
C7_Witness ==
    \E t \in Threads :
        /\ CompletedLoad(t)
        /\ th[t].entry.passage_metadata # <<>>
        /\ th[t].entry.pdf_folder_path # pdf_folder_path
        /\ passage_metadata # <<>>

\* C8 as stated: a call of load_all_pdfs whose target (folder_path, or
\* PDF_DIRECTORY without one) is not the cached folder rebuilds, so that at
\* its return the cached folder is the target and the documents returned
\* are the target's.
C8_OtherTargetRebuilds ==
    \A t \in Threads :
        ( /\ Answered(t)
          /\ th[t].path # "none"
          /\ th[t].response.status = 200
          /\ TargetOf(th[t].folder_path) # th[t].entry.pdf_folder_path )
        => /\ th[t].path = "rebuild"
           /\ pdf_folder_path = TargetOf(th[t].folder_path)
           /\ th[t].pdf_texts = ExpectedTexts(TargetOf(th[t].folder_path))

\* C8 as amended: a call with an explicit folder_path that line 158 finds
\* different from the cached folder rebuilds, whatever force_reload is, and
\* returns the documents of folder_path; handled alone, it leaves
\* folder_path as the cached folder. (A call without folder_path reuses a
\* loaded cache of any folder.)
C8_OtherFolderRebuilds ==
    \A t \in Threads :
        ( /\ Answered(t)
          /\ th[t].response.status = 200
          /\ th[t].folder_changed )
        => /\ th[t].path = "rebuild"
           /\ th[t].pdf_texts = ExpectedTexts(th[t].folder_path)
           /\ workers = 1 => pdf_folder_path = th[t].folder_path

C8_Witness ==
    \E t \in Threads :
        /\ Answered(t)
        /\ th[t].response.status = 200
        /\ th[t].folder_changed
        /\ ~th[t].force_arg
        /\ th[t].entry.pdf_cache_loaded
        /\ th[t].pdf_texts # <<>>

\* the folder_path of a /load_pdfs body is missing, blank, or no directory
InvalidFolder(body) ==
    \/ ~body.has
    \/ Strip(body.value) = <<>>
    \/ Strip(body.value) \notin Paths
    \/ fs[Strip(body.value)] \in {"absent", "file"}

\* C9: /load_pdfs with a folder_path that is missing, blank, nonexistent
\* or no directory answers 400 with success false at once and leaves the
\* loaded flag, the documents, the folder path, the metadata and the
\* vectors unchanged, whatever state it finds.
C9_InvalidFolderRejected ==
    [][\A t \in Threads :
         ( /\ Idle(t)
           /\ th'[t] # th[t]
           /\ th'[t].kind = "load_pdfs"
           /\ InvalidFolder(th'[t].body) )
         => /\ th'[t].pc = "idle"
            /\ th'[t].response.status = 400
            /\ ~th'[t].response.success
            /\ CacheNow' = CacheNow]_vars

\* a path that is a file is rejected while a corpus is loaded
C9_Witness ==
    \E t \in Threads :
        /\ Answered(t)
        /\ th[t].kind = "load_pdfs"
        /\ th[t].body.value = PlainFile
        /\ th[t].response.status = 400
        /\ th[t].entry.pdf_cache # <<>>
        /\ CacheNow = th[t].entry

\* the question of an /ask body is missing or blank
EmptyQuestion(body) == ~body.has \/ Strip(body.value) = <<>>

\* C10: /ask with a missing or blank question answers 400 at once, without
\* a call of load_all_pdfs or semantic_search: the cache (an unloaded one
\* too) and the model are left as they were.
C10_EmptyQuestionRejected ==
    [][\A t \in Threads :
         ( /\ Idle(t)
           /\ th'[t] # th[t]
           /\ th'[t].kind = "ask"
           /\ EmptyQuestion(th'[t].body) )
         => /\ th'[t].pc = "idle"
            /\ th'[t].path = "none"
            /\ th'[t].response.status = 400
            /\ CacheNow' = CacheNow
            /\ sentence_model' = sentence_model]_vars

\* a blank question is rejected while nothing is loaded
C10_Witness ==
    \E t \in Threads :
        /\ Answered(t)
        /\ th[t].kind = "ask"
        /\ th[t].body.has
        /\ th[t].response.status = 400
        /\ ~pdf_cache_loaded

\* ---------------------------------------------------------------- C11
NoCorpusMessage == "No PDF files are currently loaded"
NoMatchMessage == "No matching content found"

\* thread t answered a /ask whose question was not empty
AskedQuestion(t) ==
    Answered(t) /\ th[t].kind = "ask" /\ th[t].response.status # 400

\* C11: /ask with a non-empty question gives the 'no corpus loaded' response
\* (no sources) exactly when the document map load_all_pdfs returned is
\* empty; with a non-empty document map and an empty result list it answers
\* success=true with the 'try rephrasing' message and no sources.
C11_EmptyOutcomesDistinguished ==
    \A t \in Threads :
        AskedQuestion(t)
        => /\ th[t].response.msg = NoCorpusMessage
                => th[t].pdf_texts = <<>> /\ th[t].response.sources = <<>>
           /\ (th[t].response.status = 200 /\ th[t].pdf_texts = <<>>)
                => th[t].response.msg = NoCorpusMessage
           /\ ( /\ th[t].response.status = 200
                /\ th[t].pdf_texts # <<>>
                /\ th[t].response.sources = <<>> )
                => /\ th[t].response.success
                   /\ th[t].response.msg = NoMatchMessage

\* a question that matches nothing in a loaded, indexed corpus
C11_Witness ==
    \E t \in Threads :
        /\ AskedQuestion(t)
        /\ th[t].response.msg = NoMatchMessage
        /\ th[t].pdf_texts # <<>>
        /\ passage_metadata # <<>>
        /\ passage_embeddings # None

\* ---------------------------------------------------------------- C12, C13
\* thread t called split_into_passages alone and the call returned
SplitReturned(t) == th[t].kind = "split" /\ th[t].pc = "idle"

\* the trimmed, non-empty sentences of text, in order
Sentences(text) ==
    LET sentences == ReSplit(text, 1, <<>>)
        trimmed == [i \in 1..Len(sentences) |-> Strip(sentences[i])]
    IN SelectSeq(trimmed, LAMBDA sentence : sentence # <<>>)

\* the sentences j..k joined by single spaces
RECURSIVE JoinRange(_, _, _)
JoinRange(sentences, j, k) ==
    IF j = k THEN sentences[j]
    ELSE JoinRange(sentences, j, k - 1) \o <<" ">> \o sentences[k]

\* the passages from i on are the sentences from j on, joined in
\* consecutive groups by single spaces
RECURSIVE Regroups(_, _, _, _)
Regroups(passages, i, sentences, j) ==
    IF i > Len(passages) THEN j > Len(sentences)
    ELSE \E k \in j..Len(sentences) :
            /\ JoinRange(sentences, j, k) = passages[i]
            /\ Regroups(passages, i + 1, sentences, k + 1)

\* C12: every passage split_into_passages returns is at most max_length
\* long, the joining spaces counted, unless it is one single sentence that
\* is itself longer than max_length.
C12_PassageLengthBound ==
    \A t \in Threads :
        SplitReturned(t)
        => \A i \in 1..Len(th[t].passages) :
             LET passage == th[t].passages[i]
                 sentences == Sentences(th[t].text)
             IN \/ Len(passage) <= th[t].max_length
                \/ \E j \in 1..Len(sentences) : sentences[j] = passage

\* C13: the passages split_into_passages returns, cut at their joining
\* spaces, are the trimmed non-empty sentences of the text, each once and
\* in order, and no passage is empty.
C13_PassagesAreTheSentences ==
    \A t \in Threads :
        SplitReturned(t)
        => /\ Regroups(th[t].passages, 1, Sentences(th[t].text), 1)
           /\ \A i \in 1..Len(th[t].passages) : th[t].passages[i] # <<>>

\* a text of three sentences came back as two passages, one of them joined
C13_Witness ==
    \E t \in Threads :
        /\ SplitReturned(t)
        /\ Len(Sentences(th[t].text)) = 3
        /\ Len(th[t].passages) = 2

\* ---------------------------------------------------------------- C14
\* thread t called semantic_search alone and the call returned its results
SearchReturned(t) ==
    th[t].kind = "search" /\ th[t].pc = "idle" /\ th[t].response.status = 200

\* C14: semantic_search returns at most top_k results, each with a
\* similarity above 0.2, in strictly descending order of similarity: no two
\* adjacent results have the same similarity.
C14_TopKStrictlyDescending ==
    \A t \in Threads :
        SearchReturned(t)
        => LET results == th[t].response.sources
               q == Embed(th[t].question)
               v(k) == Embed(results[k].content)
           IN /\ Len(results) <= th[t].top_k
              /\ \A k \in 1..Len(results) : AboveThreshold(q, v(k))
              /\ \A k \in 1..(Len(results) - 1) : SimLess(q, v(k + 1), v(k))

\* what holds of the results: at most top_k of them for a positive top_k,
\* each above the threshold, none followed by a more similar one
C14_TopKDescending ==
    \A t \in Threads :
        SearchReturned(t)
        => LET results == th[t].response.sources
               q == Embed(th[t].question)
               v(k) == Embed(results[k].content)
           IN /\ th[t].top_k > 0 => Len(results) <= th[t].top_k
              /\ \A k \in 1..Len(results) : AboveThreshold(q, v(k))
              /\ \A k \in 1..(Len(results) - 1) : ~SimLess(q, v(k), v(k + 1))

\* ---------------------------------------------------------------- C15
\* the request of thread t ended with a fault raised while it was handled
Faulted(t) == Answered(t) /\ th[t].response.status = 500

\* C15: a fault raised while /ask, /reload or /load_pdfs is handled is
\* caught by the handler and answered with success=false, a message and a
\* server-error status; it never escapes the handler.
C15_FaultsCaughtByHandler ==
    \A t \in Threads :
        (Faulted(t) /\ th[t].kind \in {"ask", "reload", "load_pdfs"})
        => /\ ~th[t].response.success
           /\ th[t].response.msg = "An error occurred"

\* ---------------------------------------------------------------- C16
\* extraction of the PDF file name fails: PyPDF2 raises before its last page
\* is read
ExtractionFails(name) ==
    PDF_SUPPORT /\ readable_pages[name] < Len(PagesOf(name))

\* the document map C16 describes for the entries from i on: a file whose
\* extraction fails maps to empty text, any other to its whole text
RECURSIVE FailedAsEmpty(_, _)
FailedAsEmpty(entries, i) ==
    IF i > Len(entries) THEN <<>>
    ELSE LET rest == FailedAsEmpty(entries, i + 1)
             name == entries[i].name
         IN IF IsPdfName(name)
            THEN << <<name,
                      IF ExtractionFails(name) THEN <<>>
                      ELSE extract_text_from_pdf(entries[i].pages,
                                                 Len(entries[i].pages),
                                                 PDF_SUPPORT)>> >> \o rest
            ELSE rest

\* C16: whichever files fail to extract, a rebuild that completes leaves
\* one document per PDF file of the folder, a failed file with empty text
\* and no passage in the index, the other files with the text and the
\* passages they have when no file fails.
C16_FailedFileIsEmpty ==
    \A t \in Threads :
        CompletedLoad(t)
        => LET expected == FailedAsEmpty(ListDir(pdf_folder_path), 1)
           IN /\ pdf_cache = expected
              /\ IndexNow \in {FullIndex(expected), EmptyIndex}

\* ---------------------------------------------------------------- C17
\* C17: in every reachable state every passage of the metadata is longer
\* than 20 characters and comes from a cached document with non-empty text,
\* and the metadata entries are, in order, the passages longer than 20
\* characters that split_into_passages gives for the cached documents in
\* their order (or there are none, when the index is empty).
C17_IndexedPassages ==
    /\ \A i \in 1..Len(passage_metadata) :
         /\ Len(passage_metadata[i][2]) > MinPassageLength
         /\ \E d \in 1..Len(pdf_cache) :
              /\ pdf_cache[d][1] = passage_metadata[i][1]
              /\ pdf_cache[d][2] # <<>>
    /\ passage_metadata \in {IndexEntries(pdf_cache, 1), <<>>}

\* the same in the states where no request is being handled
C17_IndexedPassagesAtRest ==
    (\A t \in Threads : Idle(t)) => C17_IndexedPassages

\* the part that holds in every state: no indexed passage is short
C17_NoShortPassage ==
    \A i \in 1..Len(passage_metadata) :
        Len(passage_metadata[i][2]) > MinPassageLength

\* ---------------------------------------------------------------- C18
\* C18: a rebuild that finds no embedding provider (get_sentence_model
\* returns None) leaves no vectors and no metadata, and with requests
\* handled one after the other every /ask that then finds the cache loaded
\* and the index empty gets an empty result list.
C18_NoProviderEmptyIndex ==
    \A t \in Threads :
        /\ (CompletedLoad(t) /\ sentence_model = "None")
           => IndexNow = EmptyIndex
        /\ ( /\ AskedQuestion(t)
             /\ th[t].entry.pdf_cache_loaded
             /\ th[t].entry.passage_embeddings = None
             /\ th[t].entry.passage_metadata = <<>> )
           => /\ th[t].response.status = 200
              /\ th[t].response.sources = <<>>

\* documents with passages to index were loaded without a provider, and a
\* question then found nothing
C18_Witness ==
    \E t \in Threads :
        /\ AskedQuestion(t)
        /\ th[t].entry.pdf_cache_loaded
        /\ IndexEntries(th[t].entry.pdf_cache, 1) # <<>>
        /\ th[t].entry.passage_embeddings = None
        /\ th[t].entry.passage_metadata = <<>>
        /\ th[t].response.msg = NoMatchMessage
        /\ sentence_model = "None"

\* ---------------------------------------------------------------- C19
\* C19: with requests handled one after the other, a /reload that completes
\* leaves the default directory as the cached folder, with its documents
\* and their index, whatever folder was cached before; and a /ask that
\* finds a custom folder cached is served from the cache as it is: it
\* answers from that folder's documents and the folder stays cached.
C19_ReloadLoadsDefault ==
    \A t \in Threads :
        /\ (CompletedLoad(t) /\ th[t].kind = "reload")
           => /\ pdf_folder_path = PDF_DIRECTORY
              /\ pdf_cache = ExpectedTexts(PDF_DIRECTORY)
              /\ IndexNow \in {FullIndex(pdf_cache), EmptyIndex}
        /\ ( /\ AskedQuestion(t)
             /\ th[t].entry.pdf_cache_loaded
             /\ th[t].entry.pdf_folder_path \notin {None, PDF_DIRECTORY} )
           => /\ th[t].path = "hit"
              /\ th[t].pdf_texts = th[t].entry.pdf_cache
              /\ CacheNow = th[t].entry
              /\ \A k \in 1..Len(th[t].response.sources) :
                   th[t].response.sources[k].filename
                       \in KeySet(th[t].entry.pdf_cache)

\* /reload replaced the documents and the index of folder F by those of the
\* default directory
C19_Witness ==
    \E t \in Threads :
        /\ CompletedLoad(t)
        /\ th[t].kind = "reload"
        /\ th[t].entry.pdf_folder_path = FolderF
        /\ th[t].entry.passage_metadata # <<>>
        /\ pdf_cache # <<>>
        /\ passage_metadata # <<>>

\* ---------------------------------------------------------------- C20
\* thread t answered a /load_pdfs that named a directory without PDF files
LoadedEmptyFolder(t) ==
    /\ Answered(t)
    /\ th[t].kind = "load_pdfs"
    /\ th[t].response.status = 200
    /\ IsDir(th[t].folder_path)
    /\ ExpectedTexts(th[t].folder_path) = <<>>

\* C20: with requests handled one after the other, /load_pdfs of an
\* existing directory without PDF files answers success=false with 'No PDF
\* files found' and has replaced the cache: no documents, that directory as
\* the cached folder, an empty index; and a /ask that finds this cache gets
\* the 'no corpus loaded' response.
C20_EmptyFolderReplacesCache ==
    \A t \in Threads :
        /\ LoadedEmptyFolder(t)
           => /\ ~th[t].response.success
              /\ th[t].response.msg = "No PDF files found"
              /\ pdf_cache_loaded
              /\ pdf_cache = <<>>
              /\ pdf_folder_path = th[t].folder_path
              /\ IndexNow = EmptyIndex
        /\ ( /\ AskedQuestion(t)
             /\ th[t].entry.pdf_cache_loaded
             /\ th[t].entry.pdf_cache = <<>> )
           => /\ th[t].response.msg = NoCorpusMessage
              /\ th[t].response.sources = <<>>

\* the empty folder replaced a corpus that was loaded and indexed
C20_Witness ==
    \E t \in Threads :
        /\ LoadedEmptyFolder(t)
        /\ th[t].entry.pdf_cache # <<>>
        /\ th[t].entry.passage_metadata # <<>>
        /\ th[t].entry.passage_embeddings # None

====
